---------------------------- MODULE Spec2Model ----------------------------
(***************************************************************************)
(* Model of OT2_DOE/Prepare/OT2_Hcell_commands.py: the schedule generator, *)
(* the well mapper and the H-cell sampling loop.                           *)
(*                                                                         *)
(* Four specifications share the variables below:                         *)
(*   SpecSched  get_time_schedule on bounded integer inputs                *)
(*   SpecWells  get_Hcell_labware -> get_hcell_name -> get_sample_schedule *)
(*   SpecPairs  rearrange_hcell_wells -> get_hcell_name on reordered lists *)
(*   SpecProto  the main loop of H_cell_protocol, one action per step      *)
(* A specification leaves the variables of the other three at Idle.        *)
(***************************************************************************)
EXTENDS Integers, Sequences, FiniteSets, TLC

VARIABLES
    \* get_time_schedule: the three arguments, and what the call produced
    total_time, interval_time, interval_frequency, sched_pc, sched_out,
    \* well mapper: loaded_dict['Destination Wells'], the position in the
    \* preparation sequence, and what each call returned
    dest_lab, wells_pc, labware_out, name_out, sample_run, table_out,
    \* H-cell pairing: a list of H-cell wells in some order, and what
    \* rearrange_hcell_wells and get_hcell_name made of it
    pair_in, pair_pc, pair_out, pair_names,
    \* H_cell_protocol: its arguments, the loop variables i (iteration), m
    \* (column), water_vol, ww, water_well and elapsed_time, the
    \* position in the loop body, the commands issued to the robot so far
    \* and the elapsed time measured in each finished iteration
    args, iteration, column, pc, water_vol, ww, water_well, elapsed_time,
    commands, measured

schedVars == <<total_time, interval_time, interval_frequency, sched_pc, sched_out>>
wellVars == <<dest_lab, wells_pc, labware_out, name_out, sample_run, table_out>>
pairVars == <<pair_in, pair_pc, pair_out, pair_names>>
protoVars == <<args, iteration, column, pc, water_vol, ww, water_well, elapsed_time,
               commands, measured>>
vars == <<schedVars, wellVars, pairVars, protoVars>>

Idle == "idle"

\* ------------------------------------------------------------------ bounds
MaxPhases == 2      \* phases in interval_time / interval_frequency
MaxDuration == 4    \* hours of one phase
MaxFrequency == 3   \* hours between two samples of a phase
MaxHcellPlates == 2   \* H-cell plates (4 chambers each) on the deck
MaxSamplePlates == 2  \* 96-well sample plates on the deck
MaxSwaps == 1         \* transpositions applied to an H-cell well list
MaxElapsed == 3       \* longest iteration of the protocol, in half hours

\* ------------------------------------------------------- python helpers
RECURSIVE SumSeq(_)
\* sum(list)
SumSeq(s) == IF s = <<>> THEN 0 ELSE Head(s) + SumSeq(Tail(s))

\* all sequences over S of length 0..n
SeqsUpTo(S, n) == UNION {[1..k -> S] : k \in 0..n}

RECURSIVE Concat(_)
\* the concatenation of a sequence of sequences (successive list.append / +)
Concat(ss) == IF ss = <<>> THEN <<>> ELSE Head(ss) \o Concat(Tail(ss))

\* python: sub in s, for strings held as sequences of characters
InStr(sub, s) ==
    \E k \in 0..(Len(s) - Len(sub)) : SubSeq(s, k + 1, k + Len(sub)) = sub

\* python: s.split(' ')[0]
FirstToken(s) ==
    IF \E k \in 1..Len(s) : s[k] = " "
    THEN SubSeq(s, 1, (CHOOSE k \in 1..Len(s) :
                          s[k] = " " /\ \A j \in 1..(k - 1) : s[j] # " ") - 1)
    ELSE s

\* python: lst[a:b] with 0 <= a <= b
Slice(lst, a, b) ==
    SubSeq(lst, a + 1, IF b < Len(lst) THEN b ELSE Len(lst))

DigitChar == <<"0", "1", "2", "3", "4", "5", "6", "7", "8", "9">>
\* '{}'.format(n) for 0 <= n <= 99
FormatInt(n) ==
    IF n < 10 THEN <<DigitChar[n + 1]>>
    ELSE <<DigitChar[(n \div 10) + 1], DigitChar[(n % 10) + 1]>>

\* ---------------------------------------------------- get_time_schedule
\* line 206: instances = time // interval_frequency[i]
InstancesOffByOne(time, freq) == (time \div freq) + 1
Instances(time, freq) == time \div freq

RECURSIVE PhaseLoop(_, _, _, _)
\* lines 207-210: for n in range(1, instances+1): hr += f; append hr, append f.
\* acc = [hr, schedule, delays]; n counts the iterations still to run.
PhaseLoop(acc, freq, n, instances) ==
    IF n > instances THEN acc
    ELSE PhaseLoop([hr       |-> acc.hr + freq,
                    schedule |-> Append(acc.schedule, acc.hr + freq),
                    delays   |-> Append(acc.delays, freq)],
                   freq, n + 1, instances)

RECURSIVE IntervalLoopFromBoundary(_, _, _, _)
\* a loop that restarts hr at the nominal boundary of every phase
IntervalLoopFromBoundary(acc, times, freqs, i) ==
    IF i > Len(times) THEN acc
    ELSE IntervalLoopFromBoundary(
             PhaseLoop([acc EXCEPT !.hr = SumSeq(SubSeq(times, 1, i - 1))],
                       freqs[i], 1, Instances(times[i], freqs[i])),
             times, freqs, i + 1)

RECURSIVE IntervalLoop(_, _, _, _)
\* lines 205-210: for i, time in enumerate(interval_time)
IntervalLoop(acc, times, freqs, i) ==
    IF i > Len(times) THEN acc
    ELSE IntervalLoop(PhaseLoop(acc, freqs[i], 1, Instances(times[i], freqs[i])),
                      times, freqs, i + 1)

\* the two assertions in the other order
get_time_schedule_CountsFirst(total, times, freqs) ==
    IF Len(times) # Len(freqs)
    THEN [status |-> "AssertionError: counts", schedule |-> <<>>, delays |-> <<>>]
    ELSE IF SumSeq(times) # total
    THEN [status |-> "AssertionError: total", schedule |-> <<>>, delays |-> <<>>]
    ELSE LET r == IntervalLoop([hr |-> 0, schedule |-> <<0>>, delays |-> <<0>>],
                               times, freqs, 1)
         IN [status |-> "ok", schedule |-> r.schedule, delays |-> r.delays]

\* lines 193-212.  status is "ok", or the assertion that failed.
get_time_schedule(total, times, freqs) ==
    IF SumSeq(times) # total
    THEN [status |-> "AssertionError: total", schedule |-> <<>>, delays |-> <<>>]
    ELSE IF Len(times) # Len(freqs)
    THEN [status |-> "AssertionError: counts", schedule |-> <<>>, delays |-> <<>>]
    ELSE LET r == IntervalLoop([hr |-> 0, schedule |-> <<0>>, delays |-> <<0>>],
                               times, freqs, 1)
         IN [status |-> "ok", schedule |-> r.schedule, delays |-> r.delays]

\* ------------------------------------------------- wells and labware
\* A well of the deck: the labware kind, its slot, and the well's row and
\* column.  Its string form is what str(well) gives on the robot:
\* "<row letter><column> of <labware label> on <slot>".
PlateSize == 96
PlateRows == 8
PlateCols == PlateSize \div PlateRows

\* line 149: list(string.ascii_uppercase[:8])
row_letter == <<"A", "B", "C", "D", "E", "F", "G", "H">>

LabwareLabel(kind) ==
    IF kind = "hcell" THEN <<"h", "c", "e", "l", "l">>
    ELSE <<"p", "l", "a", "t", "e">>

well_name(w) == <<row_letter[w.row]>> \o FormatInt(w.col)

\* line 51, 105, 157: str(row), str(chamber)
str(w) ==
    well_name(w) \o <<" ", "o", "f", " ">> \o LabwareLabel(w.lab)
                 \o <<" ", "o", "n", " ">> \o FormatInt(w.slot)

Well(kind, slot, r, c) == [lab |-> kind, slot |-> slot, row |-> r, col |-> c]

\* the wells of one labware in the order the deck lists them: by columns
\* (A1, B1, ..., then A2, ...) or by rows (A1, A2, ..., then B1, ...)
LabwareWells(kind, slot, by) ==
    LET nr == IF kind = "hcell" THEN 2 ELSE PlateRows
        nc == IF kind = "hcell" THEN 2 ELSE PlateCols
    IN  IF by = "columns"
        THEN [k \in 1..(nr * nc) |->
                 Well(kind, slot, ((k - 1) % nr) + 1, ((k - 1) \div nr) + 1)]
        ELSE [k \in 1..(nr * nc) |->
                 Well(kind, slot, ((k - 1) \div nc) + 1, ((k - 1) % nc) + 1)]

\* loaded_dict['Destination Wells'] for labware of the given kinds loaded on
\* slots 1, 2, ...: the wells of each labware in turn
DestinationWells(kinds, by) ==
    Concat([s \in 1..Len(kinds) |-> LabwareWells(kinds[s], s, by)])

\* ------------------------------------------------ rearrange_hcell_wells
\* line 97
order == <<<<"A", "1">>, <<"B", "1">>, <<"A", "2">>, <<"B", "2">>>>

\* line 104: the chambers the inner loop runs over for plate i
PlateSlice(h_cell_wells, i) == Slice(h_cell_wells, i * 4, (i + 1) * 4)

\* lines 99-108
rearrange_hcell_wells(h_cell_wells) ==
    LET h_cell_plates == Len(h_cell_wells) \div 4
    IN  Concat([p \in 1..h_cell_plates |->
            Concat([o \in 1..Len(order) |->
                SelectSeq(PlateSlice(h_cell_wells, p - 1),
                          LAMBDA chamber : InStr(order[o], str(chamber)))])])

\* ---------------------------------------------- get_Hcell_sample_wells
\* lines 157, 165: letter in str(row).split(' ')[0]
LetterInName(letter, row) == InStr(<<letter>>, FirstToken(str(row)))

\* lines 155-158, 163-166: the wells of `rows` whose name holds `letter`
RowBucket(letter, rows) == SelectSeq(rows, LAMBDA row : LetterInName(letter, row))

\* line 153: the branch that pools every plate
PoolsPlatesAtEightChambers(number_of_hcells) == number_of_hcells = 8
PoolsPlates(number_of_hcells) == number_of_hcells = 4

\* lines 148-169
get_Hcell_sample_wells(wellplates, number_of_hcells) ==
    LET n_plates == Len(wellplates) \div PlateSize
    IN  IF PoolsPlates(number_of_hcells)
        THEN [l \in 1..Len(row_letter) |-> RowBucket(row_letter[l], wellplates)]
        ELSE Concat([p \in 1..n_plates |->
                 [l \in 1..Len(row_letter) |->
                     RowBucket(row_letter[l],
                               Slice(wellplates, (p - 1) * PlateSize, p * PlateSize))]])

\* --------------------------------------------------- get_Hcell_labware
\* line 51: 'hcell' in str(row)
IsHcellCapitalised(row) == InStr(<<"H", "c", "e", "l", "l">>, str(row))
IsHcell(row) == InStr(<<"h", "c", "e", "l", "l">>, str(row))

\* lines 46-65
get_Hcell_labware(dest) ==
    LET h_cell_wells == rearrange_hcell_wells(SelectSeq(dest, IsHcell))
        wellplates == SelectSeq(dest, LAMBDA row : ~IsHcell(row))
        number_of_hcells == Len(h_cell_wells) \div 2
    IN  [h_cell_wells |-> h_cell_wells,
         wellplates |-> get_Hcell_sample_wells(wellplates, number_of_hcells)]

\* ------------------------------------------------------ get_hcell_name
\* lines 236, 237: 'H{}_1'.format(i+1), 'H{}_2'.format(i+1)
ChamberName(h, side) == <<"H">> \o FormatInt(h) \o <<"_">> \o FormatInt(side)

\* lines 232-242.  A dict is its keys in insertion order and its mapping;
\* line 240 raises IndexError when a well has no name (an odd well count).
get_hcell_name(h_cell_wells) ==
    LET n_hcell == Len(h_cell_wells) \div 2
        h_cell_name == Concat([i \in 1..n_hcell |->
                           <<ChamberName(i, 1), ChamberName(i, 2)>>])
    IN  IF Len(h_cell_wells) > Len(h_cell_name)
        THEN [status |-> "IndexError", h_cell_name |-> h_cell_name,
              h_cell_dict |-> [keys |-> <<>>, map |-> <<>>]]
        ELSE [status |-> "ok", h_cell_name |-> h_cell_name,
              h_cell_dict |->
                  [keys |-> h_cell_name,
                   map |-> [n \in {h_cell_name[i] : i \in 1..Len(h_cell_name)} |->
                              h_cell_wells[CHOOSE i \in 1..Len(h_cell_name) :
                                               h_cell_name[i] = n]]]]

\* ------------------------------------------------- get_sample_schedule
Min(a, b) == IF a < b THEN a ELSE b

NaN == "NaN"

\* line 269: truncate(after=len(time_schedule)-1) keeps the rows 0..after
TruncateKeepsAll(n_rows, n_times) == n_rows
Truncate(n_rows, n_times) == Min(n_rows, n_times)

\* lines 265-274.  The table is held by columns: wells[name] is the column
\* of one chamber.  pandas raises ValueError for columns of unequal
\* length and for a new column whose length is not the number of rows; a
\* frame with no rows takes the length of the first column assigned to it
\* and fills the columns it had with NaN.
get_sample_schedule(h_cell_name, sample_wells, time_schedule, delay_time) ==
    LET failed(e) == [status |-> e, columns |-> <<>>, wells |-> <<>>,
                      Time_Stamp_hr |-> <<>>, Delay_hr |-> <<>>, Delay_min |-> <<>>]
        names == {h_cell_name[i] : i \in 1..Len(h_cell_name)}
        bucket(n) == sample_wells[CHOOSE i \in 1..Len(h_cell_name) : h_cell_name[i] = n]
    IN  IF Len(sample_wells) < Len(h_cell_name) THEN failed("IndexError")
        ELSE IF \E n, m \in names : Len(bucket(n)) # Len(bucket(m))
        THEN failed("ValueError")
        ELSE LET n_rows == IF h_cell_name = <<>> THEN 0
                           ELSE Len(sample_wells[1])
                 kept == Truncate(n_rows, Len(time_schedule))
             IN  IF kept > 0 /\ Len(time_schedule) # kept THEN failed("ValueError")
                 ELSE IF Len(delay_time) # Len(time_schedule) THEN failed("ValueError")
                 ELSE [status |-> "ok",
                       columns |-> h_cell_name \o
                           << <<"T","i","m","e","_","S","t","a","m","p","_","h","r">>,
                              <<"D","e","l","a","y","_","h","r">>,
                              <<"D","e","l","a","y","_","m","i","n">> >>,
                       wells |-> [n \in names |->
                           IF kept > 0 THEN SubSeq(bucket(n), 1, kept)
                           ELSE [i \in 1..Len(time_schedule) |-> NaN]],
                       Time_Stamp_hr |-> time_schedule,
                       Delay_hr |-> delay_time,
                       Delay_min |-> [i \in 1..Len(delay_time) |-> delay_time[i] * 60]]

\* ------------------------------------------------------------ SpecSched
WellsIdle ==
    /\ dest_lab = <<>> /\ wells_pc = Idle /\ labware_out = Idle
    /\ name_out = Idle /\ sample_run = Idle /\ table_out = Idle

PairsIdle ==
    /\ pair_in = <<>> /\ pair_pc = Idle /\ pair_out = Idle /\ pair_names = Idle

ProtoIdle ==
    /\ args = Idle /\ iteration = 0 /\ column = 0 /\ pc = Idle /\ water_vol = 0 /\ ww = 0
    /\ water_well = Idle /\ elapsed_time = <<>> /\ commands = <<>> /\ measured = <<>>

SchedIdle ==
    /\ total_time = 0 /\ interval_time = <<>> /\ interval_frequency = <<>>
    /\ sched_pc = Idle /\ sched_out = Idle

InitSched ==
    /\ interval_time \in SeqsUpTo(1..MaxDuration, MaxPhases)
    /\ interval_frequency \in SeqsUpTo(1..MaxFrequency, MaxPhases)
    /\ total_time \in 1..(MaxPhases * MaxDuration)
    /\ sched_pc = "call"
    /\ sched_out = Idle
    /\ WellsIdle /\ PairsIdle /\ ProtoIdle

CallGetTimeSchedule ==
    /\ sched_pc = "call"
    /\ sched_out' = get_time_schedule(total_time, interval_time, interval_frequency)
    /\ sched_pc' = "done"
    /\ UNCHANGED <<total_time, interval_time, interval_frequency>>
    /\ UNCHANGED <<wellVars, pairVars, protoVars>>

NextSched == CallGetTimeSchedule

\* ------------------------------------------------------------ SpecWells
\* the decks: up to MaxHcellPlates H-cell plates and MaxSamplePlates
\* sample plates, loaded on the slots in any order
Count(kinds, kind) == Cardinality({s \in 1..Len(kinds) : kinds[s] = kind})

Decks ==
    {kinds \in SeqsUpTo({"hcell", "plate"}, MaxHcellPlates + MaxSamplePlates) :
        /\ Count(kinds, "hcell") <= MaxHcellPlates
        /\ Count(kinds, "plate") <= MaxSamplePlates}

\* the schedules handed to get_sample_schedule, as get_time_schedule
\* arguments: one phase sampled every hour that fills a row of a plate (or
\* of two) exactly or overruns it by one, and a short two-phase run
SampleRuns ==
    {[total |-> n, times |-> <<n>>, freqs |-> <<1>>] :
        n \in {PlateCols - 1, PlateCols, 2 * PlateCols - 1, 2 * PlateCols}}
    \cup {[total |-> 3, times |-> <<1, 2>>, freqs |-> <<1, 2>>]}

InitWells ==
    /\ \E kinds \in Decks, by \in {"columns", "rows"} :
           dest_lab = DestinationWells(kinds, by)
    /\ wells_pc = "labware"
    /\ labware_out = Idle /\ name_out = Idle /\ sample_run = Idle /\ table_out = Idle
    /\ SchedIdle /\ PairsIdle /\ ProtoIdle

CallGetHcellLabware ==
    /\ wells_pc = "labware"
    /\ labware_out' = get_Hcell_labware(dest_lab)
    /\ wells_pc' = "name"
    /\ UNCHANGED <<dest_lab, name_out, sample_run, table_out>>
    /\ UNCHANGED <<schedVars, pairVars, protoVars>>

CallGetHcellName ==
    /\ wells_pc = "name"
    /\ name_out' = get_hcell_name(labware_out.h_cell_wells)
    /\ wells_pc' = "schedule"
    /\ UNCHANGED <<dest_lab, labware_out, sample_run, table_out>>
    /\ UNCHANGED <<schedVars, pairVars, protoVars>>

CallGetSampleSchedule ==
    /\ wells_pc = "schedule"
    /\ \E run \in SampleRuns :
        LET ts == get_time_schedule(run.total, run.times, run.freqs)
        IN  /\ ts.status = "ok"
            /\ sample_run' = run
            /\ table_out' = get_sample_schedule(name_out.h_cell_name,
                                 labware_out.wellplates, ts.schedule, ts.delays)
    /\ wells_pc' = "done"
    /\ UNCHANGED <<dest_lab, labware_out, name_out>>
    /\ UNCHANGED <<schedVars, pairVars, protoVars>>

NextWells ==
    \/ CallGetHcellLabware
    \/ CallGetHcellName
    \/ CallGetSampleSchedule

\* ------------------------------------------------------------ SpecPairs
\* the list with the entries at positions i and j exchanged
Swap(lst, i, j) ==
    [k \in 1..Len(lst) |-> IF k = i THEN lst[j] ELSE IF k = j THEN lst[i] ELSE lst[k]]

\* the H-cell wells of 0..MaxHcellPlates plates, in deck order with up to
\* MaxSwaps pairs of wells exchanged
HcellWellLists ==
    LET deck(n) == DestinationWells([s \in 1..n |-> "hcell"], "columns")
        step(S) == S \cup UNION {{Swap(lst, i, j) : i, j \in 1..Len(lst)} : lst \in S}
        RECURSIVE iter(_, _)
        iter(S, n) == IF n = 0 THEN S ELSE iter(step(S), n - 1)
    IN  UNION {iter({deck(n)}, MaxSwaps) : n \in 0..MaxHcellPlates}

InitPairs ==
    /\ pair_in \in HcellWellLists
    /\ pair_pc = "rearrange"
    /\ pair_out = Idle /\ pair_names = Idle
    /\ SchedIdle /\ WellsIdle /\ ProtoIdle

CallRearrangeHcellWells ==
    /\ pair_pc = "rearrange"
    /\ pair_out' = rearrange_hcell_wells(pair_in)
    /\ pair_pc' = "name"
    /\ UNCHANGED <<pair_in, pair_names>>
    /\ UNCHANGED <<schedVars, wellVars, protoVars>>

CallGetHcellNamePairs ==
    /\ pair_pc = "name"
    /\ pair_names' = get_hcell_name(pair_out)
    /\ pair_pc' = "done"
    /\ UNCHANGED <<pair_in, pair_out>>
    /\ UNCHANGED <<schedVars, wellVars, protoVars>>

NextPairs ==
    \/ CallRearrangeHcellWells
    \/ CallGetHcellNamePairs

\* ------------------------------------------------------- H_cell_protocol
\* An optional argument is <<>> for None (or False) and <<v>> for a value.
\* Durations are held in seconds, that is in sixtieths of the minutes the
\* code computes with, so that round(e - s) / 60 stays an integer.
None == <<>>

\* python truth value of an optional number: None and 0 are false
Truthy(x) == x # None /\ x[1] # 0

\* line 389: elapsed_time != False (0.0 equals False in python)
NotEqualFalse(x) == x # None /\ x[1] # 0

\* python: s.startswith(prefix), s.endswith(suffix)
StartsWith(s, prefix) ==
    Len(s) >= Len(prefix) /\ SubSeq(s, 1, Len(prefix)) = prefix
EndsWith(s, suffix) ==
    Len(s) >= Len(suffix) /\ SubSeq(s, Len(s) - Len(suffix) + 1, Len(s)) = suffix

\* line 310: the water stock plate has 12 wells
NumStockWells == 12

\* loaded_labware_dict['Stock Wells'][k]
StockWell(k) == [lab |-> "stock", index |-> k]

\* line 364
h_cell_col(sample_schedule) ==
    SelectSeq(sample_schedule.columns, LAMBDA col : StartsWith(col, <<"H">>))

\* line 353: list(h_cell_info.keys()); line 475: list(h_cell_info.values())
DictKeys(d) == d.keys
DictDonorValues(d) ==
    LET donors == SelectSeq(d.keys, LAMBDA n : EndsWith(n, <<"_", "1">>))
    IN  [k \in 1..Len(donors) |-> d.map[donors[k]]]
DictValues(d) == [k \in 1..Len(d.keys) |-> d.map[d.keys[k]]]

\* lines 390-394: the minutes handed to protocol.delay, in seconds
DelayFlooredAtZero(delay_min, elapsed) ==
    IF NotEqualFalse(elapsed)
    THEN (IF 60 * delay_min - elapsed[1] < 0 THEN 0 ELSE 60 * delay_min - elapsed[1])
    ELSE 60 * delay_min
RequestedDelay(delay_min, elapsed) ==
    IF NotEqualFalse(elapsed) THEN 60 * delay_min - elapsed[1]
    ELSE 60 * delay_min

\* line 419: i == 0 and dye_volume and dye_well_num
DyeDue(iter, dye_volume, dye_well_num) ==
    iter = 0 /\ Truthy(dye_volume) /\ Truthy(dye_well_num)

\* line 486: water_vol >= max_stock_vol
SwitchDueStrict(vol, max_stock_vol) == vol > max_stock_vol
SwitchDue(vol, max_stock_vol) == vol >= max_stock_vol

Command(op, iter, vol, src, dst) ==
    [op |-> op, iter |-> iter, vol |-> vol, src |-> src, dst |-> dst]

\* len(sample_schedule)
Rows(sample_schedule) == Len(sample_schedule.Time_Stamp_hr)

\* lines 370-394: the head of an iteration; Stock Wells[ww] must exist
BeginIteration ==
    /\ pc = "delay"
    /\ ww < args.n_stock
    /\ water_well' = StockWell(ww)
    /\ commands' = Append(commands,
           Command("delay", iteration,
                   RequestedDelay(args.sample_schedule.Delay_min[iteration + 1],
                                  elapsed_time),
                   "none", <<>>))
    /\ pc' = "dilute"
    /\ UNCHANGED <<args, iteration, column, water_vol, ww, elapsed_time, measured>>
    /\ UNCHANGED <<schedVars, wellVars, pairVars>>

\* line 378 raises IndexError once every stock well has been used up
StockWellMissing ==
    /\ pc = "delay"
    /\ ww >= args.n_stock
    /\ pc' = "IndexError"
    /\ UNCHANGED <<args, iteration, column, water_vol, ww, water_well, elapsed_time,
                   commands, measured>>
    /\ UNCHANGED <<schedVars, wellVars, pairVars>>

\* lines 397-414: dilution water into the sample well of every chamber
DistributeWater ==
    /\ pc = "dilute"
    /\ LET cols == h_cell_col(args.sample_schedule)
       IN  commands' = Append(commands,
               Command("dilution", iteration, args.sample_dilution_volume, water_well,
                       [k \in 1..Len(cols) |->
                           args.sample_schedule.wells[cols[k]][iteration + 1]]))
    /\ column' = 0
    /\ pc' = "dye"
    /\ UNCHANGED <<args, iteration, water_vol, ww, water_well, elapsed_time, measured>>
    /\ UNCHANGED <<schedVars, wellVars, pairVars>>

\* lines 416-437: the dye goes into a donor chamber on the first iteration
InjectDye ==
    /\ pc = "dye"
    /\ LET n == h_cell_col(args.sample_schedule)[column + 1]
       IN  /\ DyeDue(iteration, args.dye_volume, args.dye_well_num)
           /\ EndsWith(n, <<"_", "1">>)
           /\ commands' = Append(commands,
                  Command("dye", iteration, args.dye_volume[1],
                          StockWell(args.dye_well_num[1]),
                          <<args.h_cell_info.map[n]>>))
    /\ pc' = "aliquot"
    /\ UNCHANGED <<args, iteration, column, water_vol, ww, water_well,
                   elapsed_time, measured>>
    /\ UNCHANGED <<schedVars, wellVars, pairVars>>

\* lines 438-441: no dye for this column
SkipDye ==
    /\ pc = "dye"
    /\ LET n == h_cell_col(args.sample_schedule)[column + 1]
       IN  ~(DyeDue(iteration, args.dye_volume, args.dye_well_num)
             /\ EndsWith(n, <<"_", "1">>))
    /\ pc' = "aliquot"
    /\ UNCHANGED <<args, iteration, column, water_vol, ww, water_well, elapsed_time,
                   commands, measured>>
    /\ UNCHANGED <<schedVars, wellVars, pairVars>>

\* lines 443-465: the aliquot of column m, and the end of the column loop
Aliquot ==
    /\ pc = "aliquot"
    /\ LET cols == h_cell_col(args.sample_schedule)
           n == cols[column + 1]
       IN  /\ commands' = Append(commands,
                  Command("aliquot", iteration, args.aliquot_volume,
                          args.h_cell_info.map[n],
                          <<args.sample_schedule.wells[n][iteration + 1]>>))
           /\ column' = column + 1
           /\ pc' = IF column + 1 < Len(cols) THEN "dye" ELSE "replenish"
    /\ water_vol' = water_vol + args.aliquot_volume
    /\ UNCHANGED <<args, iteration, ww, water_well, elapsed_time, measured>>
    /\ UNCHANGED <<schedVars, wellVars, pairVars>>

\* the values round(e - s) can take, in seconds
ElapsedSeconds == {1800 * k : k \in 0..MaxElapsed}

\* lines 467-505: replenish the chambers, measure the iteration, account
\* for the water and switch the stock well; then the next iteration
Replenish ==
    /\ pc = "replenish"
    /\ commands' = Append(commands,
           Command("replenish", iteration, args.aliquot_volume, water_well,
                   DictValues(args.h_cell_info)))
    /\ \E seconds \in ElapsedSeconds :
           /\ elapsed_time' = <<seconds>>
           /\ measured' = Append(measured, seconds)
    /\ LET vol == water_vol + (args.sample_dilution_volume + args.aliquot_volume)
                                * Len(DictKeys(args.h_cell_info))
       IN  IF SwitchDue(vol, args.max_stock_vol)
           THEN ww' = ww + 1 /\ water_vol' = 0
           ELSE ww' = ww /\ water_vol' = vol
    /\ iteration' = iteration + 1
    /\ pc' = IF iteration + 1 < Rows(args.sample_schedule) THEN "delay" ELSE "done"
    /\ UNCHANGED <<args, column, water_well>>
    /\ UNCHANGED <<schedVars, wellVars, pairVars>>

\* ------------------------------------------------------------ SpecProto
\* the runs of the protocol: get_time_schedule arguments
ProtoRuns ==
    {[total |-> 2, times |-> <<2>>, freqs |-> <<1>>],
     [total |-> 3, times |-> <<1, 2>>, freqs |-> <<1, 2>>]}

\* the arguments prepared the way the functions above prepare them, for a
\* deck of n H-cell plates and one sample plate
PreparedRun(n, run) ==
    LET deck == DestinationWells([s \in 1..(n + 1) |->
                                     IF s <= n THEN "hcell" ELSE "plate"], "columns")
        lab == get_Hcell_labware(deck)
        names == get_hcell_name(lab.h_cell_wells)
        ts == get_time_schedule(run.total, run.times, run.freqs)
    IN  [h_cell_info |-> names.h_cell_dict,
         sample_schedule |-> get_sample_schedule(names.h_cell_name, lab.wellplates,
                                                 ts.schedule, ts.delays)]

\* aliquot_volume, sample_dilution_volume: the defaults (line 282, 283) and
\* a small pair; max_stock_vol: the default (line 283) and one below it
Volumes == {[aliquot |-> 20, dilution |-> 180], [aliquot |-> 1, dilution |-> 2]}
MaxStockVols == {17, 16}

InitProto ==
    /\ \E n \in 1..MaxHcellPlates, run \in ProtoRuns, v \in Volumes,
          max \in MaxStockVols, stock \in {2, NumStockWells},
          dye_well \in {None, <<0>>, <<1>>}, dye_vol \in {None, <<50>>} :
        LET prep == PreparedRun(n, run)
        IN  /\ prep.sample_schedule.status = "ok"
            /\ args = [sample_schedule |-> prep.sample_schedule,
                       h_cell_info |-> prep.h_cell_info,
                       aliquot_volume |-> v.aliquot,
                       sample_dilution_volume |-> v.dilution,
                       max_stock_vol |-> max,
                       n_stock |-> stock,
                       dye_well_num |-> dye_well,
                       dye_volume |-> dye_vol]
    /\ iteration = 0 /\ column = 0 /\ pc = "delay"
    /\ water_vol = 0 /\ ww = 0 /\ water_well = Idle
    /\ elapsed_time = None
    /\ commands = <<>> /\ measured = <<>>
    /\ SchedIdle /\ WellsIdle /\ PairsIdle

NextProto ==
    \/ BeginIteration
    \/ StockWellMissing
    \/ DistributeWater
    \/ InjectDye
    \/ SkipDye
    \/ Aliquot
    \/ Replenish

\* ------------------------------------------------------- specifications
SpecSched == InitSched /\ [][NextSched]_vars

SpecWells == InitWells /\ [][NextWells]_vars

SpecPairs == InitPairs /\ [][NextPairs]_vars

SpecProto == InitProto /\ [][NextProto]_vars

\* --------------------------------------------------------------- claims
\* how often x occurs in the sequence s
Occ(s, x) == Cardinality({i \in 1..Len(s) : s[i] = x})

Range(s) == {s[i] : i \in 1..Len(s)}

IsPermutation(a, b) ==
    /\ Len(a) = Len(b)
    /\ \A x \in Range(a) \cup Range(b) : Occ(a, x) = Occ(b, x)

\* ---------------------------------------------------------------- C1
SchedAccepted == sched_pc = "done" /\ sched_out.status = "ok"

\* the points the first i phases should contribute: sum of floor(d / f)
PointsThrough(i) ==
    SumSeq([j \in 1..i |-> interval_time[j] \div interval_frequency[j]])

\* the phase that should have produced the k-th entry of the schedule, k >= 2
PhaseOfPoint(k) ==
    CHOOSE i \in 1..Len(interval_time) :
        PointsThrough(i - 1) < k - 1 /\ k - 1 <= PointsThrough(i)

\* C1: an accepted get_time_schedule call returns two lists of equal length
\* that start with 0; the schedule is strictly increasing, every delay is
\* the difference of consecutive timepoints and the frequency of the phase
\* that produced the point, and phase i contributes floor(d_i / f_i) points.
C1_ScheduleShape ==
    SchedAccepted =>
        LET schedule == sched_out.schedule
            delays == sched_out.delays
        IN  /\ Len(schedule) = Len(delays)
            /\ schedule[1] = 0 /\ delays[1] = 0
            /\ Len(schedule) = 1 + PointsThrough(Len(interval_time))
            /\ \A k \in 2..Len(schedule) :
                /\ schedule[k] > schedule[k - 1]
                /\ delays[k] = schedule[k] - schedule[k - 1]
                /\ delays[k] = interval_frequency[PhaseOfPoint(k)]

\* an accepted call of two phases with different frequencies, one of which
\* does not divide its phase, that produced points in both phases
C1_Witness ==
    /\ SchedAccepted
    /\ Len(interval_time) = 2
    /\ interval_frequency[1] # interval_frequency[2]
    /\ interval_time[1] % interval_frequency[1] # 0
    /\ interval_time[1] \div interval_frequency[1] >= 1
    /\ interval_time[2] \div interval_frequency[2] >= 2

\* ---------------------------------------------------------------- C2
\* C2: for any order of an H-cell well list whose length is a multiple of
\* 4, rearrange_hcell_wells returns a permutation in which positions 2j and
\* 2j+1 hold the A-row and B-row well of one column of one plate, in the
\* order A1, B1, A2, B2 within each plate, and get_hcell_name names the two
\* H(j+1)_1 and H(j+1)_2 and maps each name to that well.
C2_PairsForAnyOrder ==
    (pair_pc = "done" /\ Len(pair_in) % 4 = 0) =>
        /\ IsPermutation(pair_out, pair_in)
        /\ pair_names.status = "ok"
        /\ \A j \in 0..((Len(pair_out) \div 2) - 1) :
            LET donor == pair_out[2 * j + 1]
                receptor == pair_out[2 * j + 2]
                first == pair_out[4 * (j \div 2) + 1]
            IN  /\ donor.row = 1 /\ receptor.row = 2
                /\ donor.col = (j % 2) + 1 /\ receptor.col = donor.col
                /\ donor.slot = first.slot /\ receptor.slot = first.slot
                /\ pair_names.h_cell_name[2 * j + 1] = ChamberName(j + 1, 1)
                /\ pair_names.h_cell_name[2 * j + 2] = ChamberName(j + 1, 2)
                /\ pair_names.h_cell_dict.map[ChamberName(j + 1, 1)] = donor
                /\ pair_names.h_cell_dict.map[ChamberName(j + 1, 2)] = receptor

\* ---------------------------------------------------------------- C3
LabwareMapped == wells_pc = "name"

\* how often the well w occurs in the buckets of sample wells
OccInBuckets(buckets, w) ==
    SumSeq([b \in 1..Len(buckets) |-> Occ(buckets[b], w)])

\* C3: get_Hcell_labware lists a destination well as an H-cell well exactly
\* when its string form contains 'hcell' and as a sample well otherwise;
\* with the H-cell wells a multiple of 4 and the sample wells a multiple of
\* 96, every input well is in the output exactly once.
C3_EveryWellOnce ==
    LabwareMapped =>
        LET hcell == <<"h", "c", "e", "l", "l">>
            n_hcell == Cardinality({k \in 1..Len(dest_lab) : InStr(hcell, str(dest_lab[k]))})
        IN  (n_hcell % 4 = 0 /\ (Len(dest_lab) - n_hcell) % PlateSize = 0) =>
              \A k \in 1..Len(dest_lab) :
                LET w == dest_lab[k]
                    in_hcells == Occ(labware_out.h_cell_wells, w)
                    in_samples == OccInBuckets(labware_out.wellplates, w)
                IN  /\ in_hcells + in_samples = 1
                    /\ (in_hcells = 1) <=> InStr(hcell, str(w))

\* a deck that mixes H-cell plates and sample plates has been mapped
C3_Witness ==
    /\ LabwareMapped
    /\ Len(labware_out.h_cell_wells) = 8
    /\ Len(dest_lab) = 8 + 2 * PlateSize
    /\ dest_lab[1].lab = "plate"
    /\ dest_lab[Len(dest_lab)].lab = "plate"

\* ---------------------------------------------------------------- C4
SampleInput == SelectSeq(dest_lab, LAMBDA w : w.lab = "plate")

\* the slot of the p-th sample plate of the deck
PlateSlot(p) ==
    LET slots == {w.slot : w \in Range(SampleInput)}
    IN  CHOOSE s \in slots : Cardinality({t \in slots : t <= s}) = p

TablePoints ==
    Len(get_time_schedule(sample_run.total, sample_run.times, sample_run.freqs).schedule)

\* every chamber has a bucket of its own
EveryChamberHasBucket ==
    Len(name_out.h_cell_name) <= Len(labware_out.wellplates)

\* the returned table has one row per timepoint, gives chamber k the first
\* wells of bucket k, uses no well twice, and has Delay_min = 60 * Delay_hr
TableAsClaimed ==
    LET names == name_out.h_cell_name
        buckets == labware_out.wellplates
        cells == {<<k, i>> : k \in 1..Len(names), i \in 1..TablePoints}
    IN  /\ Len(table_out.Time_Stamp_hr) = TablePoints
        /\ \A k \in 1..Len(names) :
            /\ Len(table_out.wells[names[k]]) = TablePoints
            /\ \A i \in 1..TablePoints :
                /\ i <= Len(buckets[k])
                /\ table_out.wells[names[k]][i] = buckets[k][i]
        /\ \A c, d \in cells :
              c # d => table_out.wells[names[c[1]]][c[2]] # table_out.wells[names[d[1]]][d[2]]
        /\ \A i \in 1..TablePoints :
              table_out.Delay_min[i] = 60 * table_out.Delay_hr[i]

\* C5 as stated: the table is as claimed whenever the call returns, and the
\* call fails whenever some chamber's bucket has fewer wells than there are
\* timepoints.
C5_FailsWhenRowExhausted ==
    wells_pc = "done" =>
        /\ table_out.status = "ok" => TableAsClaimed
        /\ (\E k \in 1..Len(name_out.h_cell_name) :
                k > Len(labware_out.wellplates)
                \/ TablePoints > Len(labware_out.wellplates[k]))
             => table_out.status # "ok"

\* C5 amended: the same for chambers whose bucket holds at least one well,
\* and then the call returns exactly when no bucket is overrun; with empty
\* buckets the call returns a row per timepoint whose wells are missing.
C5_FailsWhenNonEmptyRowExhausted ==
    wells_pc = "done" =>
        LET names == name_out.h_cell_name
            buckets == labware_out.wellplates
        IN  IF EveryChamberHasBucket /\ \A k \in 1..Len(names) : Len(buckets[k]) > 0
            THEN IF \E k \in 1..Len(names) : TablePoints > Len(buckets[k])
                 THEN table_out.status # "ok"
                 ELSE table_out.status = "ok" /\ TableAsClaimed
            ELSE table_out.status = "ok" =>
                    /\ Len(table_out.Time_Stamp_hr) = TablePoints
                    /\ \A k \in 1..Len(names), i \in 1..TablePoints :
                          table_out.wells[names[k]][i] = NaN
                    /\ \A i \in 1..TablePoints :
                          table_out.Delay_min[i] = 60 * table_out.Delay_hr[i]

\* eight chambers, two pooled plates, and a run that uses all 24 wells of
\* every row
C5_Witness ==
    /\ wells_pc = "done"
    /\ table_out.status = "ok"
    /\ Len(name_out.h_cell_name) = 8
    /\ TablePoints = 2 * PlateCols
    /\ Len(labware_out.wellplates[PlateRows]) = TablePoints
    /\ table_out.wells[ChamberName(4, 2)][TablePoints].row = PlateRows

\* ---------------------------------------------------------------- C6
Started == pc # Idle

DelayCommands == SelectSeq(commands, LAMBDA c : c.op = "delay")

\* the nominal delay of iteration j, in seconds
NominalDelay(j) == 60 * args.sample_schedule.Delay_min[j + 1]

\* C6: iteration 0 requests its nominal Delay_min; every iteration j >= 1
\* requests Delay_min[j] minus the elapsed time measured for iteration
\* j - 1, also when that is 0, and the request is negative whenever the
\* previous iteration took longer than the nominal delay.
C6_DelayCorrection ==
    Started =>
        \A k \in 1..Len(DelayCommands) :
            LET c == DelayCommands[k]
            IN  IF c.iter = 0 THEN c.vol = NominalDelay(0)
                ELSE /\ c.vol = NominalDelay(c.iter) - measured[c.iter]
                     /\ measured[c.iter] > NominalDelay(c.iter) => c.vol < 0

\* a run in which one iteration was measured as 0 and another took longer
\* than the delay that followed it
C6_Witness ==
    /\ Started
    /\ \E k \in 1..Len(DelayCommands) :
          DelayCommands[k].iter >= 1 /\ measured[DelayCommands[k].iter] = 0
    /\ \E k \in 1..Len(DelayCommands) : DelayCommands[k].vol < 0

\* ---------------------------------------------------------------- C7
Shape(c) == [op |-> c.op, src |-> c.src, dst |-> c.dst]

\* the commands of iteration j, the dye injections left out
IterationCommands(j) ==
    SelectSeq(commands, LAMBDA c : c.iter = j /\ c.op # "dye")

\* what iteration j should issue when it draws its water from `stock`
ExpectedCommands(j, stock) ==
    LET names == args.h_cell_info.keys
        chamber(k) == args.h_cell_info.map[names[k]]
        sample(k) == args.sample_schedule.wells[names[k]][j + 1]
    IN  <<[op |-> "delay", src |-> "none", dst |-> <<>>],
          [op |-> "dilution", src |-> stock,
           dst |-> [k \in 1..Len(names) |-> sample(k)]]>>
        \o [k \in 1..Len(names) |->
               [op |-> "aliquot", src |-> chamber(k), dst |-> <<sample(k)>>]]
        \o <<[op |-> "replenish", src |-> stock,
              dst |-> [k \in 1..Len(names) |-> chamber(k)]]>>

\* C7: every iteration issues the delay, the dilution water from the
\* current stock well into that row's sample well of every chamber, one
\* aliquot per chamber in column order from the chamber into its sample
\* well, and the replenishment from the same stock well into every
\* chamber, in this order.
C7_IterationOrder ==
    Started =>
        /\ \A k \in 1..(Len(commands) - 1) : commands[k].iter <= commands[k + 1].iter
        /\ \A k \in 1..Len(commands) :
              commands[k].iter <= iteration
              /\ commands[k].iter < Rows(args.sample_schedule)
        /\ \A j \in 0..Min(iteration, Rows(args.sample_schedule) - 1) :
            LET got == IterationCommands(j)
                stock == IF Len(got) >= 2 THEN got[2].src ELSE "none"
                expected == ExpectedCommands(j, stock)
            IN  /\ Len(got) <= Len(expected)
                /\ \A k \in 1..Len(got) : Shape(got[k]) = expected[k]
                /\ j < iteration => Len(got) = Len(expected)
        /\ pc \in {"dye", "aliquot", "replenish"} =>
              IterationCommands(iteration)[2].src = StockWell(ww)

\* a finished run of eight chambers that switched the stock well
C7_Witness ==
    /\ pc = "done"
    /\ Len(args.h_cell_info.keys) = 8
    /\ iteration = 3
    /\ ww >= 1
    /\ Len(IterationCommands(2)) = 11

\* ---------------------------------------------------------------- C8
\* the counter as line 483 leaves it, before the comparison of line 486
CounterAtEnd ==
    water_vol + (args.sample_dilution_volume + args.aliquot_volume)
                   * Len(args.h_cell_info.keys)

\* ww and water_well stay as they are in the middle of an iteration
StockFixedWithinIteration ==
    /\ pc # "replenish" => ww' = ww
    /\ pc # "delay" => water_well' = water_well

\* C8 as stated: the end of an iteration advances ww and resets the counter
\* exactly when the counter exceeds max_stock_vol; otherwise both carry
\* over; the stock well never changes in the middle of an iteration.
C8_SwitchWhenExceeded ==
    [][/\ pc = "replenish" =>
            IF CounterAtEnd > args.max_stock_vol
            THEN ww' = ww + 1 /\ water_vol' = 0
            ELSE ww' = ww /\ water_vol' = CounterAtEnd
       /\ StockFixedWithinIteration]_vars

\* C8 amended: ... exactly when the counter has reached max_stock_vol
\* (is greater than or equal to it).
C8_SwitchWhenReached ==
    [][/\ pc = "replenish" =>
            IF CounterAtEnd >= args.max_stock_vol
            THEN ww' = ww + 1 /\ water_vol' = 0
            ELSE ww' = ww /\ water_vol' = CounterAtEnd
       /\ StockFixedWithinIteration]_vars

\* the counter was carried over iteration 0 and the well switched at the
\* end of iteration 1
C8_Witness ==
    /\ pc = "delay" /\ iteration = 2
    /\ ww = 1 /\ water_vol = 0
    /\ args.max_stock_vol = 17

\* ---------------------------------------------------------------- C9
\* the microlitres of water drawn from stock well k so far
WaterDrawn(k) ==
    SumSeq([n \in 1..Len(commands) |->
               IF commands[n].op \in {"dilution", "replenish"}
                  /\ commands[n].src = StockWell(k)
               THEN commands[n].vol * Len(commands[n].dst) ELSE 0])

\* C9: max_stock_vol is in millilitres and the volumes in microlitres: a
\* stock well is left only after max_stock_vol mL of water were drawn from
\* it, so with the defaults (20, 180, 17) it is not left after a single
\* iteration.
C9_StockWellUsedUpToMax ==
    Started =>
        /\ \A k \in 0..(ww - 1) : WaterDrawn(k) >= 1000 * args.max_stock_vol
        /\ (/\ args.aliquot_volume = 20 /\ args.sample_dilution_volume = 180
            /\ args.max_stock_vol = 17 /\ iteration = 1) => ww = 0

\* --------------------------------------------------------------- C10
IsDonor(well) ==
    \E n \in Range(args.h_cell_info.keys) :
        EndsWith(n, <<"_", "1">>) /\ args.h_cell_info.map[n] = well

\* the dye injections into `well` among the first k commands
DyeInto(well, k) ==
    Cardinality({n \in 1..k : commands[n].op = "dye" /\ commands[n].dst = <<well>>})

\* C10: given a dye volume and a dye well number (well 0 included), every
\* donor chamber gets the dye exactly once, in iteration 0 and before its
\* first aliquot, and no receptor chamber and no later iteration gets any.
C10_DyeOnceIntoEveryDonor ==
    (Started /\ args.dye_volume # None /\ args.dye_well_num # None) =>
        \A k \in 1..Len(commands) :
            LET c == commands[k]
            IN  /\ c.op = "dye" =>
                    /\ c.iter = 0
                    /\ IsDonor(c.dst[1])
                    /\ c.src = StockWell(args.dye_well_num[1])
                    /\ DyeInto(c.dst[1], Len(commands)) = 1
                /\ (c.op = "aliquot" /\ c.iter = 0 /\ IsDonor(c.src)) =>
                    DyeInto(c.src, k - 1) = 1

\* --------------------------------------------------------------- C11
\* C11: with two 96-well sample plates and 1 to 4 H-cells, the bucket of
\* every H-cell chamber holds the wells of its row on both plates, 24
\* sample wells per chamber.
C11_BothPlatesForUpToFourHcells ==
    (/\ LabwareMapped
     /\ Len(SampleInput) = 2 * PlateSize
     /\ Len(labware_out.h_cell_wells) \div 2 \in 1..4) =>
        LET buckets == labware_out.wellplates
        IN  \A k \in 1..Len(labware_out.h_cell_wells) :
              /\ k <= Len(buckets)
              /\ buckets[k] = SelectSeq(SampleInput, LAMBDA w : w.row = k)
              /\ Len(buckets[k]) = 2 * PlateCols

\* --------------------------------------------------------------- C12
SchedReturned == sched_pc = "done"

\* C12: get_time_schedule fails with an assertion error and returns no
\* schedule whenever the durations do not sum to total_time or the two
\* lists differ in length; the sum is checked first (its assertion is the
\* one that fails when both are wrong), and a call that passes both checks
\* does not fail.
C12_AssertionsSumFirst ==
    SchedReturned =>
        LET sum_ok == SumSeq(interval_time) = total_time
            len_ok == Len(interval_time) = Len(interval_frequency)
        IN  /\ ~sum_ok =>
                /\ sched_out.status = "AssertionError: total"
                /\ sched_out.schedule = <<>> /\ sched_out.delays = <<>>
            /\ (sum_ok /\ ~len_ok) =>
                /\ sched_out.status = "AssertionError: counts"
                /\ sched_out.schedule = <<>> /\ sched_out.delays = <<>>
            /\ (sum_ok /\ len_ok) =>
                /\ sched_out.status = "ok"
                /\ Len(sched_out.schedule) >= 1

\* a call that breaks both assertions and failed on the sum
C12_Witness ==
    /\ SchedReturned
    /\ SumSeq(interval_time) # total_time
    /\ Len(interval_time) # Len(interval_frequency)
    /\ sched_out.status = "AssertionError: total"

\* --------------------------------------------------------------- C13
\* C13: between iterations of H_cell_protocol the counter water_vol equals
\* the water drawn from the current stock well since it was selected:
\* (sample_dilution_volume + aliquot_volume) times the number of chambers
\* for every iteration run on that well, and nothing for the aliquots taken
\* from the chambers.
C13_CounterIsWaterDrawn ==
    (Started /\ pc \in {"delay", "done"}) => water_vol = WaterDrawn(ww)

\* --------------------------------------------------------------- C14
\* the last timepoint the first i phases emit: sum of floor(d / f) * f
EmittedThrough(i) ==
    SumSeq([j \in 1..i |->
               (interval_time[j] \div interval_frequency[j]) * interval_frequency[j]])

EveryPhaseDivides ==
    \A i \in 1..Len(interval_time) : interval_time[i] % interval_frequency[i] = 0

\* C14: for an accepted call the last timepoint is at most total_time, and
\* equals it exactly when every phase duration is a multiple of the phase's
\* frequency; the n-th point of phase i is n frequencies after the last
\* point emitted before the phase, not after the nominal phase boundary.
C14_LastTimepoint ==
    SchedAccepted =>
        LET schedule == sched_out.schedule
            last == schedule[Len(schedule)]
        IN  /\ last <= total_time
            /\ (last = total_time) <=> EveryPhaseDivides
            /\ \A i \in 1..Len(interval_time) :
                 \A n \in 1..(interval_time[i] \div interval_frequency[i]) :
                    schedule[1 + PointsThrough(i - 1) + n] =
                        EmittedThrough(i - 1) + n * interval_frequency[i]

\* an accepted call whose first phase leaves a remainder and whose second
\* phase emits points: the run ends before total_time
C14_Witness ==
    /\ SchedAccepted
    /\ Len(interval_time) = 2
    /\ interval_time[1] % interval_frequency[1] # 0
    /\ interval_time[1] \div interval_frequency[1] >= 1
    /\ interval_time[2] \div interval_frequency[2] >= 1
    /\ sched_out.schedule[Len(sched_out.schedule)] < total_time

=============================================================================
